---- MODULE Spec2Model ----
(***************************************************************************)
(* Seatrade assignment engine (seatrades/seatrades.py).                    *)
(*                                                                         *)
(* A Seatrades object holds a camper table and a seatrade table.  assign() *)
(* builds a 0/1 linear program over them, hands it to the solver and keeps *)
(* the solver's status and the values of the camper variables.  The solver *)
(* is modelled by what it guarantees: a returned status of 1 comes with a  *)
(* point that satisfies every constraint that was added to the problem.    *)
(*                                                                         *)
(* A camper is identified by the position of its row in the camper table   *)
(* (the camper column is unique in every explored table), and every        *)
(* explored seatrade table lists the seatrades SeatradeNames in order.     *)
(***************************************************************************)
EXTENDS Integers, Sequences, FiniteSets, TLC

VARIABLES cabin_camper_prefs, seatrades_prefs, max_seatrades_per_fleet,
          status, assignments, fleet_assignment, problem, top2, longform,
          roundtrip,
          session, displayed, status_queue, log_file, supervisor, runs

\* The Seatrades object and the argument and result of its assign() call.
engine == <<cabin_camper_prefs, seatrades_prefs, max_seatrades_per_fleet,
            status, assignments, fleet_assignment, problem>>

\* The Streamlit session, the module-level status_queue, the log file at
\* SEATRADES_LOG_PATH, the script run that executes _assign_seatrades and
\* the solves started so far, each with its Seatrades object and worker.
app == <<session, displayed, status_queue, log_file, supervisor, runs>>

\* What the assignments tab leaves alone.
offstage == <<engine, top2, longform, roundtrip>>

vars == <<offstage, app>>

(***************************************************************************)
(* Bounds of the explored inputs and of the solver's search.               *)
(***************************************************************************)
MaxCampers == 5      \* campers in the camper table
MaxCabins == 3       \* cabins in the camper table
MaxCapacity == 5     \* largest campers_max of a seatrade
MaxFleetCap == 1     \* largest configured max_seatrades_per_fleet
MaxOnes == 2         \* ones in one camper's row of a candidate point
MaxSlack == 1        \* indicator entries set to 1 above the forced ones
MaxRows == 3         \* campers in a table handed to the long-form wrangling
MaxRuns == 2         \* solves started from the assignments tab
MaxWeighed == 2      \* campers in a table solved with weights
MaxNameLen == 3      \* characters in a seatrade name put through an id

\* An Optional[int] is <<>> for None and <<n>> for the integer n.
None == <<>>
Some(n) == <<n>>

(***************************************************************************)
(* Names.  Identifiers are sequences of characters so that the instance    *)
(* ids f"{fleet}_{seatrade}" and the prefix removal s[3:] are computed.    *)
(***************************************************************************)
SeatradeNames == << <<"A">>, <<"B">>, <<"C">>, <<"D">>, <<"E">> >>
CamperNames ==
    << <<"c", "1">>, <<"c", "2">>, <<"c", "3">>, <<"c", "4">>,
       <<"c", "5">>, <<"c", "6">>, <<"c", "7">>, <<"c", "8">> >>
CabinNames == <<"K1", "K2", "K3", "K4", "K5">>

fleets == << <<"1", "a">>, <<"1", "b">>, <<"2", "a">>, <<"2", "b">> >>
FleetSet == {fleets[i] : i \in DOMAIN fleets}
FleetBlocks == << {fleets[1], fleets[2]}, {fleets[3], fleets[4]} >>

Range(f) == {f[i] : i \in DOMAIN f}

RECURSIVE SumSeq(_)
SumSeq(q) == IF q = <<>> THEN 0 ELSE Head(q) + SumSeq(Tail(q))

\* 1 for True, 0 for False: the value of a binary variable kept as a set.
Bit(b) == IF b THEN 1 ELSE 0

(***************************************************************************)
(* Seatrades.__init__: the attributes derived from the two tables.         *)
(***************************************************************************)
campers == [i \in DOMAIN cabin_camper_prefs |-> cabin_camper_prefs[i].camper]
cabins == {cabin_camper_prefs[i].cabin : i \in DOMAIN cabin_camper_prefs}
seatrades == SeatradeNames

\* f"{fleet}_{seatrade}"
InstanceId(fleet, seatrade) == fleet \o <<"_">> \o seatrade

\* s[3:]: the id without its first three characters.
StripFleet(s) == SubSeq(s, 4, Len(s))

seatrades1a == [i \in DOMAIN seatrades |-> InstanceId(fleets[1], seatrades[i])]
seatrades1b == [i \in DOMAIN seatrades |-> InstanceId(fleets[2], seatrades[i])]
seatrades2a == [i \in DOMAIN seatrades |-> InstanceId(fleets[3], seatrades[i])]
seatrades2b == [i \in DOMAIN seatrades |-> InstanceId(fleets[4], seatrades[i])]
seatrades_full == seatrades1a \o seatrades1b \o seatrades2a \o seatrades2b

\* The ids of a fleet, by fleet and seatrade position: s = f"{fleet}_{seatrade}".
FleetIds == <<seatrades1a, seatrades1b, seatrades2a, seatrades2b>>

\* camper_prefs[c]: the list [seatrade_1, seatrade_2, seatrade_3, seatrade_4].
camper_prefs(c) == cabin_camper_prefs[c].prefs

\* seatrades_prefs.set_index("seatrade").loc[seatrade, column]
SeatradeRow(seatrade) ==
    seatrades_prefs[CHOOSE i \in DOMAIN seatrades_prefs :
                        seatrades_prefs[i].seatrade = seatrade]

\* The campers of a cabin, as assign() selects them from the camper table.
cabin_campers(cabin) ==
    {i \in DOMAIN cabin_camper_prefs : cabin_camper_prefs[i].cabin = cabin}

\* list.index(s): the 0-based position of the first occurrence of s.
ListIndex(list, s) ==
    (CHOOSE i \in DOMAIN list :
        list[i] = s /\ \A j \in DOMAIN list : list[j] = s => i <= j) - 1

(***************************************************************************)
(* The linear program of assign().  A point of the program gives a value   *)
(* in {0, 1} to every variable; the variables that are 1 are kept as sets: *)
(*   x[c]        the instance ids s with camper_assignments[c][s] = 1      *)
(*   ca          the <<cabin, s>> with cabin_assignments[cabin][s] = 1     *)
(*   fa[cabin]   the fleets f with fleet_assignment[cabin][f] = 1          *)
(*   sa          the <<fleet, t>> with seatrade_assignment[fleet][t] = 1   *)
(* A row is one camper's x[c].  While the solver searches, x holds the     *)
(* rows of the first campers only and the other rows are all 0.            *)
(***************************************************************************)
Val(row, s) == Bit(s \in row)

\* lpSum([camper_assignments[c][s] for s in list])
RowSum(row, list) == SumSeq([i \in DOMAIN list |-> Val(row, list[i])])

\* lpSum([camper_assignments[c][s] for c in group])
CamperSum(x, group, s) == Cardinality({c \in group \cap DOMAIN x : s \in x[c]})

\* cabin_assignments[cabin][s] >= camper_assignments[c][s]
CabinIndicator(x, ca) ==
    \A i \in DOMAIN seatrades_full : \A cabin \in cabins :
        \A c \in cabin_campers(cabin) :
            Bit(<<cabin, seatrades_full[i]>> \in ca) >= Val(x[c], seatrades_full[i])

\* fleet_assignment[cabin][fleet] >= camper_assignments[c][s], one camper's part
FleetIndicatorRow(row, fleetrow) ==
    \A f \in DOMAIN fleets : \A i \in DOMAIN seatrades :
        Bit(fleets[f] \in fleetrow) >= Val(row, FleetIds[f][i])

FleetIndicator(x, fa) ==
    \A cabin \in cabins : \A c \in cabin_campers(cabin) :
        FleetIndicatorRow(x[c], fa[cabin])

\* seatrade_assignment[fleet][seatrade] >= camper_assignments[c][s]
SeatradeIndicator(x, sa) ==
    \A f \in DOMAIN fleets : \A i \in DOMAIN seatrades : \A c \in DOMAIN x :
        Bit(<<fleets[f], seatrades[i]>> \in sa) >= Val(x[c], FleetIds[f][i])

\* Constraint 1: one seatrade in each of the 2 blocks (1ab and 2ab).
\* Variant of constraint 1 with "<= 1" for "== 1".
Constraint1AtMost(row) ==
    /\ RowSum(row, seatrades1a \o seatrades1b) <= 1
    /\ RowSum(row, seatrades2a \o seatrades2b) <= 1

Constraint1(row) ==
    /\ RowSum(row, seatrades1a \o seatrades1b) = 1
    /\ RowSum(row, seatrades2a \o seatrades2b) = 1

\* Constraint 2: not the same seatrade in both blocks.
\* Variant of constraint 2 that pairs 1a with 2a and 1b with 2b only.
Constraint2SameLetter(row) ==
    \A i \in DOMAIN seatrades :
        /\ RowSum(row, <<seatrades1a[i], seatrades2a[i]>>) <= 1
        /\ RowSum(row, <<seatrades1b[i], seatrades2b[i]>>) <= 1

Constraint2(row) ==
    \A i \in DOMAIN seatrades :
        RowSum(row, <<seatrades1a[i], seatrades1b[i],
                      seatrades2a[i], seatrades2b[i]>>) <= 1

\* Constraint 3: each instance holds between campers_min and campers_max.
\* Variant of the lower bound of constraint 3 that ignores campers_min.
Constraint3MinZero(x, s) == CamperSum(x, DOMAIN campers, s) >= 0

Constraint3Min(x, s) ==
    CamperSum(x, DOMAIN campers, s) >= SeatradeRow(StripFleet(s)).campers_min

Constraint3Max(x, s) ==
    CamperSum(x, DOMAIN campers, s) <= SeatradeRow(StripFleet(s)).campers_max

Constraint3(x) ==
    \A i \in DOMAIN seatrades_full :
        /\ Constraint3Min(x, seatrades_full[i])
        /\ Constraint3Max(x, seatrades_full[i])

\* Constraint 4: no un-requested seatrade.
\* Variant of constraint 4 that covers the instances of block 1 only.
Constraint4Block1(row, preferences) ==
    RowSum(row, SelectSeq(seatrades1a \o seatrades1b,
                          LAMBDA s : StripFleet(s) \notin Range(preferences))) = 0

Constraint4(row, preferences) ==
    RowSum(row, SelectSeq(seatrades_full,
                          LAMBDA s : StripFleet(s) \notin Range(preferences))) = 0

\* Constraint 5: the rank indices of the assigned seatrades sum to at most 5 - 1.
RankSum(row, preferences) ==
    SumSeq([f \in DOMAIN fleets |->
        SumSeq([i \in DOMAIN preferences |->
            Val(row, InstanceId(fleets[f], preferences[i]))
                * ListIndex(preferences, preferences[i])])])

\* Variant of constraint 5 with the bound 5 for 5 - 1.
Constraint5Five(row, preferences) == RankSum(row, preferences) <= 5

Constraint5(row, preferences) == RankSum(row, preferences) <= 5 - 1

\* Constraint 6: a cabin contributes no more than 4 campers to an instance.
\* Variant of constraint 6 with the bound 5 for 4.
Constraint6AtFive(x, cabin, s) == CamperSum(x, cabin_campers(cabin), s) <= 5

Constraint6At(x, cabin, s) == CamperSum(x, cabin_campers(cabin), s) <= 4

Constraint6(x) ==
    \A i \in DOMAIN seatrades_full : \A cabin \in cabins :
        Constraint6At(x, cabin, seatrades_full[i])

\* Constraint 7: a cabin is in a single fleet of each block.
\* Variant of constraint 7 with ">= 1" for "== 1".
Constraint7AtLeast(fleetrow) ==
    \A b \in DOMAIN FleetBlocks : Cardinality(fleetrow \cap FleetBlocks[b]) >= 1

Constraint7(fleetrow) ==
    \A b \in DOMAIN FleetBlocks : Cardinality(fleetrow \cap FleetBlocks[b]) = 1

\* Constraint 8: every fleet gets at least half of the cabins, rounded down.
\* Variant of constraint 8 that halves one cabin less.
Constraint8OneLess(fa) ==
    \A f \in DOMAIN fleets :
        Cardinality({cabin \in cabins : fleets[f] \in fa[cabin]})
            >= (Cardinality(cabins) - 1) \div 2

Constraint8(fa) ==
    \A f \in DOMAIN fleets :
        Cardinality({cabin \in cabins : fleets[f] \in fa[cabin]})
            >= Cardinality(cabins) \div 2

\* The gender strings in their sort order.
GenderOrder == <<"F", "M">>

GenderCount(cabin, gender) ==
    Cardinality({i \in DOMAIN cabin_camper_prefs :
                    /\ cabin_camper_prefs[i].cabin = cabin
                    /\ cabin_camper_prefs[i].gender = gender})

\* groupby("cabin")["gender"].agg(mode()[0]): the most frequent gender of the
\* cabin's campers, the first in sort order among equally frequent ones.
cabin_genders(cabin) ==
    GenderOrder[CHOOSE g \in DOMAIN GenderOrder :
        /\ \A h \in DOMAIN GenderOrder :
              GenderCount(cabin, GenderOrder[h]) <= GenderCount(cabin, GenderOrder[g])
        /\ \A h \in DOMAIN GenderOrder :
              GenderCount(cabin, GenderOrder[h]) = GenderCount(cabin, GenderOrder[g])
                  => g <= h]

gender_cabins(gender) == {cabin \in cabins : cabin_genders(cabin) = gender}

\* Constraint 9: every fleet gets at least half of the cabins of each gender.
\* Variant of constraint 9 that covers the fleets of block 1 only.
Constraint9Block1(fa) ==
    \A gender \in {cabin_camper_prefs[i].gender : i \in DOMAIN cabin_camper_prefs} :
        \A f \in FleetBlocks[1] :
            Cardinality({cabin \in gender_cabins(gender) : f \in fa[cabin]})
                >= Cardinality(gender_cabins(gender)) \div 2

Constraint9(fa) ==
    \A gender \in {cabin_camper_prefs[i].gender : i \in DOMAIN cabin_camper_prefs} :
        \A f \in DOMAIN fleets :
            Cardinality({cabin \in gender_cabins(gender) : fleets[f] \in fa[cabin]})
                >= Cardinality(gender_cabins(gender)) \div 2

\* "if max_seatrades_per_fleet:" is taken for every value but None and 0.
Truthy(v) == v # None /\ v[1] # 0

\* (Optional) Constraint 10: no more than max_seatrades_per_fleet seatrades
\* are assigned within each fleet.
Constraint10(sa, cap) ==
    Truthy(cap) =>
        \A f \in DOMAIN fleets :
            SumSeq([i \in DOMAIN seatrades |-> Bit(<<fleets[f], seatrades[i]>> \in sa)])
                <= cap[1]

(***************************************************************************)
(* The tables a Seatrades object is constructed from.                      *)
(***************************************************************************)
\* Cabin sizes: k cabins of m campers each.
Shapes ==
    {sh \in (1..MaxCabins) \X (1..MaxCampers) : sh[1] * sh[2] <= MaxCampers}

GenderPatterns == {"bycabin", "bycamper"}

\* The gender of the i-th camper, who is in the k-th cabin.
GenderOf(pattern, i, k) ==
    IF pattern = "bycabin" THEN (IF k % 2 = 1 THEN "M" ELSE "F")
    ELSE (IF i % 2 = 1 THEN "M" ELSE "F")

PrefPatterns == {"same", "rotate"}

\* Four distinct seatrades: the first four, or four in a row starting at i.
PrefsOf(pattern, i) ==
    [j \in 1..4 |->
        IF pattern = "same" THEN SeatradeNames[j]
        ELSE SeatradeNames[((i + j - 2) % Len(SeatradeNames)) + 1]]

\* The preference lists of the specification's example scenarios, over the
\* seatrades S1 and S2 (the first two of SeatradeNames): [S1, S2] in four
\* columns, filled up with seatrades that take no camper or with S1 and S2
\* once more, and a list that holds S1 only.
ExamplePrefLists ==
    [S1S2 |-> {PrefsOf("same", 1),
               <<SeatradeNames[1], SeatradeNames[2],
                 SeatradeNames[1], SeatradeNames[2]>>},
     S1 |-> {<<SeatradeNames[1], SeatradeNames[1],
               SeatradeNames[1], SeatradeNames[1]>>}]

PrefLists ==
    {PrefsOf(pp, i) : pp \in PrefPatterns, i \in 1..MaxCampers}
        \cup ExamplePrefLists.S1S2 \cup ExamplePrefLists.S1

CamperTables ==
    {[i \in 1..(sh[1] * sh[2]) |->
        [camper |-> CamperNames[i],
         cabin |-> CabinNames[((i - 1) \div sh[2]) + 1],
         gender |-> GenderOf(gp, i, ((i - 1) \div sh[2]) + 1),
         prefs |-> PrefsOf(pp, i)]] :
        sh \in Shapes, gp \in GenderPatterns, pp \in PrefPatterns}

\* <<open, mn, mx>>: the seatrades (by position) that take up to mx campers,
\* the others take none; the first seatrade needs mn campers.  The last
\* choice is a table whose first seatrade has campers_min above campers_max.
CapacityChoices ==
    ({{1, 2}} \X (0..1) \X {1, MaxCapacity})
        \cup ({{1, 2, 5}} \X {0} \X {1, MaxCapacity})
        \cup ({{3, 4}} \X {0} \X {MaxCapacity})
        \cup ({{2}} \X {1} \X {1})

SeatradeTables ==
    {[i \in DOMAIN SeatradeNames |->
        [seatrade |-> SeatradeNames[i],
         campers_min |-> IF i = 1 THEN ch[2] ELSE 0,
         campers_max |-> IF i \in ch[1] THEN ch[3] ELSE 0]] :
        ch \in CapacityChoices}

\* max_seatrades_per_fleet: Optional[int]
FleetCaps == {None} \cup {Some(n) : n \in 0..MaxFleetCap}

(***************************************************************************)
(* problem.solve(): the points the solver may return.  The solver's search *)
(* is bounded: a row carries at most MaxOnes ones and an indicator at most *)
(* MaxSlack ones that no constraint forces.  The search fixes the fleet    *)
(* rows first, then one camper's row at a time, and drops a partial point  *)
(* as soon as an upper bound (campers_max, the cabin limit) is exceeded.   *)
(* Every constraint of the problem is applied on the way:                  *)
(*   PrefRows       constraints 1, 2, 4, 5 (on one camper's row)           *)
(*   FleetRows      the fleet indicator constraints                        *)
(*   FleetPoints    constraints 7, 8, 9                                    *)
(*   Search         the upper bounds of constraints 3 and 6                *)
(*   CamperPoints   constraint 3                                           *)
(*   SolverPoints   the seatrade and cabin indicator constraints and       *)
(*                  constraint 10                                          *)
(***************************************************************************)
RECURSIVE SubsetsUpTo(_, _)
SubsetsUpTo(S, k) ==
    IF k = 0 THEN {{}}
    ELSE {r \cup e : r \in SubsetsUpTo(S, k - 1), e \in {{}} \cup {{d} : d \in S}}

CandidateRows == SubsetsUpTo(Range(seatrades_full), MaxOnes)

\* The rows that satisfy the constraints on a single camper.
PrefRows == 
    [preferences \in PrefLists |->
        {row \in CandidateRows :
            /\ Constraint1(row)
            /\ Constraint2(row)
            /\ Constraint4(row, preferences)
            /\ Constraint5(row, preferences)}]

\* ... and that the fleet row of the camper's cabin allows.
FleetRows ==
    [preferences \in PrefLists |->
        [fleetrow \in SUBSET FleetSet |->
            {row \in PrefRows[preferences] : FleetIndicatorRow(row, fleetrow)}]]

\* The fleet rows that satisfy the constraints on the fleet indicators.
FleetPoints ==
    {fa \in [cabins -> {fleetrow \in SUBSET FleetSet : Constraint7(fleetrow)}] :
        Constraint8(fa) /\ Constraint9(fa)}

\* The upper bounds on the instances of the last row of x.
RowFits(x) ==
    \A s \in x[Len(x)] :
        /\ Constraint3Max(x, s)
        /\ Constraint6At(x, cabin_camper_prefs[Len(x)].cabin, s)

\* x with a row for the next camper.
Extensions(x, fa) ==
    {y \in {Append(x, row) :
                row \in FleetRows[camper_prefs(Len(x) + 1)]
                                 [fa[cabin_camper_prefs[Len(x) + 1].cabin]]} :
        RowFits(y)}

RECURSIVE Search(_, _)
Search(x, fa) ==
    IF Len(x) = Len(campers) THEN {x}
    ELSE UNION {Search(y, fa) : y \in Extensions(x, fa)}

\* The points of the search that keep the lower bounds as well.
CamperPoints ==
    UNION {{[x |-> x, fa |-> fa] : x \in {y \in Search(<<>>, fa) : Constraint3(y)}} :
              fa \in FleetPoints}

\* The least indicators a camper point forces.
LeastCa(x) ==
    UNION {{<<cabin_camper_prefs[c].cabin, s>> : s \in x[c]} : c \in DOMAIN x}

LeastSa(x) ==
    {<<fleets[k[1]], seatrades[k[2]]>> :
        k \in {j \in (DOMAIN fleets) \X (DOMAIN seatrades) :
                  \E c \in DOMAIN x : FleetIds[j[1]][j[2]] \in x[c]}}

\* The indicators with at most MaxSlack ones above the least ones.
Above(least, keys) ==
    {least \cup extra : extra \in SubsetsUpTo(keys \ least, MaxSlack)}

\* Some seatrade indicators go with x under the cap.
SeatradePoint(x, cap) ==
    \E sa \in Above(LeastSa(x), FleetSet \X Range(seatrades)) :
        Constraint10(sa, cap) /\ SeatradeIndicator(x, sa)

\* Some cabin indicators go with x.
CabinPoint(x) ==
    \E extra \in SUBSET ((cabins \X Range(seatrades_full)) \ LeastCa(x)) :
        Cardinality(extra) <= MaxSlack /\ CabinIndicator(x, LeastCa(x) \cup extra)

\* The points of the search that satisfy every constraint of the problem.
SolverPoints(points, cap) ==
    {p \in points : SeatradePoint(p.x, cap) /\ CabinPoint(p.x)}

(***************************************************************************)
(* The objective of the problem.  A weight is a number (preference_weight) *)
(* or an Optional number (cabins_weight, sparsity_weight); the objective   *)
(* is kept as the terms "coefficient * variable" the code adds to obj, one *)
(* set for each family of variables.                                       *)
(***************************************************************************)

\* PENALTY 1: preference_weight * camper_assignments[c][block_s] * index(s),
\* for every camper c, block (fleet) f and position i of the preference list.
CamperTerms(preference_weight) ==
    {[c |-> c, s |-> InstanceId(fleets[f], camper_prefs(c)[i]), at |-> <<f, i>>,
      coef |-> preference_weight * ListIndex(camper_prefs(c), camper_prefs(c)[i])] :
        c \in DOMAIN campers, f \in DOMAIN fleets, i \in 1..4}

\* Variant of penalty 2 that is added whenever cabins_weight is not None.
CabinTermsNotNone(cabins_weight) ==
    IF cabins_weight # None
    THEN {[cabin |-> cabin, s |-> seatrades_full[i], coef |-> cabins_weight[1]] :
              cabin \in cabins, i \in DOMAIN seatrades_full}
    ELSE {}

\* OPTIONAL PENALTY 2: "if cabins_weight:", cabins_weight *
\* cabin_assignments[cabin][s] for every instance s and every cabin.
CabinTerms(cabins_weight) ==
    IF Truthy(cabins_weight)
    THEN {[cabin |-> cabin, s |-> seatrades_full[i], coef |-> cabins_weight[1]] :
              cabin \in cabins, i \in DOMAIN seatrades_full}
    ELSE {}

\* Variant of penalty 3 that is never added.
SeatradeTermsNever(sparsity_weight) == {}

\* OPTIONAL PENALTY 3: "if sparsity_weight:", sparsity_weight *
\* seatrade_assignment[fleet][s] for every fleet and every seatrade s.
SeatradeTerms(sparsity_weight) ==
    IF Truthy(sparsity_weight)
    THEN {[fleet |-> fleets[f], s |-> seatrades[i], coef |-> sparsity_weight[1]] :
              f \in DOMAIN fleets, i \in DOMAIN seatrades}
    ELSE {}

\* problem += obj
Objective(weights) ==
    [camper_assignments |-> CamperTerms(weights.preference_weight),
     cabin_assignments |-> CabinTerms(weights.cabins_weight),
     seatrade_assignment |-> SeatradeTerms(weights.sparsity_weight)]

\* The sum of the amounts of a set of valued terms.
RECURSIVE SumAmounts(_)
SumAmountsFrom(terms, t) == t.amount + SumAmounts(terms \ {t})

SumAmounts(terms) ==
    IF terms = {} THEN 0 ELSE SumAmountsFrom(terms, CHOOSE t \in terms : TRUE)

\* pulp.value(problem.objective) at the point (x, ca, sa).
ObjectiveValue(obj, x, ca, sa) ==
    SumAmounts({[term |-> t, amount |-> t.coef * Val(x[t.c], t.s)] :
                    t \in obj.camper_assignments})
    + SumAmounts({[term |-> t, amount |-> t.coef * Bit(<<t.cabin, t.s>> \in ca)] :
                    t \in obj.cabin_assignments})
    + SumAmounts({[term |-> t, amount |-> t.coef * Bit(<<t.fleet, t.s>> \in sa)] :
                    t \in obj.seatrade_assignment})

\* The indicators above the least ones, with MaxSlack unforced ones in all.
Slack(x) ==
    {e \in SubsetsUpTo((cabins \X Range(seatrades_full)) \ LeastCa(x), MaxSlack)
            \X SubsetsUpTo((FleetSet \X Range(seatrades)) \ LeastSa(x), MaxSlack) :
        Cardinality(e[1]) + Cardinality(e[2]) <= MaxSlack}

\* The points of the problem with the values of all their variables.
FullPoints(points, cap) ==
    {q \in UNION {{[x |-> p.x, fa |-> p.fa,
                    cabin_assignments |-> LeastCa(p.x) \cup e[1],
                    seatrade_assignment |-> LeastSa(p.x) \cup e[2]] :
                       e \in Slack(p.x)} : p \in points} :
        /\ CabinIndicator(q.x, q.cabin_assignments)
        /\ SeatradeIndicator(q.x, q.seatrade_assignment)
        /\ Constraint10(q.seatrade_assignment, cap)}

\* Each point with the value of the objective at it.
Scored(points, obj) ==
    {[point |-> q,
      value |-> ObjectiveValue(obj, q.x, q.cabin_assignments, q.seatrade_assignment)] :
        q \in points}

\* The least value of the objective over the points.
Best(scored) ==
    CHOOSE v \in {sc.value : sc \in scored} : \A sc \in scored : v <= sc.value

\* The problem assign() returns before it is built: not solved, no objective.
NoProblem ==
    [status |-> 0, weights |-> <<>>, objective |-> <<>>,
     cabin_assignments |-> {}, seatrade_assignment |-> {},
     value |-> 0, best |-> 0]

\* The table of camper variable values read back when every value is None.
NoValues == <<>>

\* No row is being put to constraint 5 on its own.
NoTop2 == [preferences |-> <<>>, row |-> {}, verdict |-> "none"]

\* No instance id is being built and taken apart on its own.
NoRoundTrip ==
    [fleet |-> <<>>, seatrade |-> <<>>, id |-> <<>>, stripped |-> <<>>,
     columns |-> <<>>, raised |-> FALSE, done |-> FALSE]

\* wrangle_assignments_to_longform has not been called.
NoLongform == [called |-> FALSE, raised |-> FALSE, rows |-> <<>>]

\* No script run is in _assign_seatrades.
\* log_text is "", old_log_text has no value yet (None; Some(text) once the
\* polling loop has assigned it), the time limit is not exceeded, timeout is
\* False, the progress bar and the status label show the set-up step, and
\* nothing has been taken from the queue.
Idle ==
    [pc |-> "idle", run |-> 0, log_text |-> <<>>, success |-> FALSE, item |-> None,
     old_log_text |-> None, overdue |-> FALSE, timeout |-> FALSE,
     progress |-> "setup", label |-> "setup"]

\* A fresh session of the application: nothing stored, nothing rendered,
\* the queue empty, no log file, no solve started.
AppIdle ==
    /\ session = [assigned_seatrades |-> None, optimization_success |-> None]
    /\ displayed = None
    /\ status_queue = <<>>
    /\ log_file = None
    /\ supervisor = Idle
    /\ runs = <<>>

Init ==
    /\ cabin_camper_prefs \in CamperTables
    /\ seatrades_prefs \in SeatradeTables
    /\ max_seatrades_per_fleet = None
    /\ status = 0
    /\ assignments = NoValues
    /\ fleet_assignment = NoValues
    /\ problem = NoProblem
    /\ roundtrip = NoRoundTrip
    /\ top2 = NoTop2
    /\ longform = NoLongform
    /\ AppIdle

(***************************************************************************)
(* assign(max_seatrades_per_fleet = cap): build the problem, solve it,     *)
(* keep the status and the values of the camper variables.  The solver     *)
(* returns status 1 with a point of the problem, -1 when the problem has   *)
(* no point, and 0 (not solved) or -3 (undefined) when it gives up.        *)
(***************************************************************************)
SolverFailures(points) == IF points = {} THEN {-1, 0, -3} ELSE {0, -3}

\* self.status = status if status else -1
StoredStatus(solved) == IF solved # 0 THEN solved ELSE -1

Assign ==
    /\ status = 0
    /\ \E found \in {CamperPoints} : \E cap \in FleetCaps :
        LET points == SolverPoints(found, cap)
        IN  /\ max_seatrades_per_fleet' = cap
            /\ \/ \E p \in points :
                    /\ status' = 1
                    /\ assignments' = p.x
                    /\ fleet_assignment' = p.fa
                    /\ problem' = [NoProblem EXCEPT !.status = 1]
               \/ \E solved \in SolverFailures(points) :
                    /\ status' = StoredStatus(solved)
                    /\ assignments' = NoValues
                    /\ fleet_assignment' = NoValues
                    /\ problem' = [NoProblem EXCEPT !.status = solved]
    /\ UNCHANGED <<cabin_camper_prefs, seatrades_prefs, top2, longform, roundtrip, app>>

Next == Assign

Spec == Init /\ [][Next]_vars

(***************************************************************************)
(* Constraint 5 on its own: one camper with 4 distinct preferences and a   *)
(* row that satisfies constraints 1, 2 and 4 (one instance per block, of   *)
(* two different requested seatrades).                                     *)
(***************************************************************************)
\* The orders of the first four seatrades.
Top2Prefs ==
    {pr \in [1..4 -> {SeatradeNames[j] : j \in 1..4}] :
        \A i, j \in 1..4 : pr[i] = pr[j] => i = j}

Top2Rows(preferences) ==
    {row \in CandidateRows :
        Constraint1(row) /\ Constraint2(row) /\ Constraint4(row, preferences)}

InitTop2 ==
    /\ cabin_camper_prefs = <<>>
    /\ seatrades_prefs = <<>>
    /\ max_seatrades_per_fleet = None
    /\ status = 0
    /\ assignments = NoValues
    /\ fleet_assignment = NoValues
    /\ problem = NoProblem
    /\ roundtrip = NoRoundTrip
    /\ longform = NoLongform
    /\ AppIdle
    /\ \E preferences \in Top2Prefs : \E row \in Top2Rows(preferences) :
        top2 = [preferences |-> preferences, row |-> row, verdict |-> "pending"]

\* The constraint the solver holds the row to.
CheckTop2 ==
    /\ top2.verdict = "pending"
    /\ top2' = [top2 EXCEPT !.verdict =
                   IF Constraint5(top2.row, top2.preferences)
                   THEN "accepted" ELSE "rejected"]
    /\ UNCHANGED <<engine, longform, roundtrip, app>>

NextTop2 == CheckTop2

SpecTop2 == InitTop2 /\ [][NextTop2]_vars

(***************************************************************************)
(* Properties of an accepted solution: status 1, with the camper variable  *)
(* values read back into assignments.                                      *)
(***************************************************************************)
Accepted == status = 1

\* The instance ids of a block, of a fleet, and of a seatrade.
BlockIds(b) ==
    {InstanceId(f, seatrades[i]) : f \in FleetBlocks[b], i \in DOMAIN seatrades}

FleetIdSet(fleet) == {InstanceId(fleet, seatrades[i]) : i \in DOMAIN seatrades}

SeatradeIdSet(seatrade) == {InstanceId(f, seatrade) : f \in FleetSet}

\* The campers assigned to instance s, among the campers of group.
Attending(group, s) == {c \in group : s \in assignments[c]}

\* The fleets of block b in which the campers of a cabin are assigned.
CabinFleets(cabin, b) ==
    {f \in FleetBlocks[b] :
        \E c \in cabin_campers(cabin) : assignments[c] \cap FleetIdSet(f) # {}}

\* The cabins of cabinset with a camper assigned in the fleet.
CabinsInFleet(cabinset, fleet) ==
    {cabin \in cabinset :
        \E c \in cabin_campers(cabin) : assignments[c] \cap FleetIdSet(fleet) # {}}

\* The distinct seatrades with at least one camper in the fleet.
SeatradesInFleet(fleet) ==
    {seatrades[i] : i \in {j \in DOMAIN seatrades :
        Attending(DOMAIN assignments, InstanceId(fleet, seatrades[j])) # {}}}

\* C1: in an accepted solution every camper is assigned to exactly one
\* seatrade instance in block 1 and exactly one in block 2.
C1_OneInstancePerBlock ==
    Accepted =>
        /\ DOMAIN assignments = DOMAIN cabin_camper_prefs
        /\ \A c \in DOMAIN assignments : \A b \in DOMAIN FleetBlocks :
              Cardinality(assignments[c] \cap BlockIds(b)) = 1

\* An accepted solution for the largest camper table.
C1_Witness ==
    /\ Accepted
    /\ Len(cabin_camper_prefs) = MaxCampers
    /\ \A c \in DOMAIN assignments : Cardinality(assignments[c]) = 2

\* C2: in an accepted solution no camper holds more than one of the four
\* instances of a seatrade, so the seatrades of the two blocks differ.
C2_NoSeatradeTwice ==
    Accepted =>
        \A c \in DOMAIN assignments :
            /\ \A i \in DOMAIN seatrades :
                  Cardinality(assignments[c] \cap SeatradeIdSet(seatrades[i])) <= 1
            /\ {StripFleet(s) : s \in assignments[c] \cap BlockIds(1)}
                  \cap {StripFleet(s) : s \in assignments[c] \cap BlockIds(2)} = {}

\* An accepted solution where a camper changes fleet letter between the
\* blocks, the case in which the two instances are in different lists.
C2_Witness ==
    /\ Accepted
    /\ \E c \in DOMAIN assignments :
          /\ assignments[c] \cap FleetIdSet(fleets[1]) # {}
          /\ assignments[c] \cap FleetIdSet(fleets[4]) # {}

\* C3: in an accepted solution every seatrade instance, requested or not,
\* holds between campers_min and campers_max campers of its seatrade.
C3_WithinCapacity ==
    Accepted =>
        \A f \in FleetSet : \A i \in DOMAIN seatrades_prefs :
            LET n == Cardinality(Attending(DOMAIN assignments,
                        InstanceId(f, seatrades_prefs[i].seatrade)))
            IN  /\ n >= seatrades_prefs[i].campers_min
                /\ n <= seatrades_prefs[i].campers_max

\* An accepted solution with a seatrade whose four instances each need a
\* camper, an instance filled to its campers_max, and an instance of a
\* seatrade no camper requested.
C3_Witness ==
    /\ Accepted
    /\ \E i \in DOMAIN seatrades_prefs : seatrades_prefs[i].campers_min >= 1
    /\ \E f \in FleetSet : \E i \in DOMAIN seatrades_prefs :
          /\ seatrades_prefs[i].campers_max >= 1
          /\ Cardinality(Attending(DOMAIN assignments,
                InstanceId(f, seatrades_prefs[i].seatrade)))
                = seatrades_prefs[i].campers_max
    /\ \E i \in DOMAIN seatrades_prefs :
          \A c \in DOMAIN cabin_camper_prefs :
              seatrades_prefs[i].seatrade \notin Range(camper_prefs(c))

\* C4: in an accepted solution the seatrade of every instance a camper is
\* assigned to (the id without its 3-character prefix) is one of the
\* camper's preferences.
C4_OnlyPreferred ==
    Accepted =>
        \A c \in DOMAIN assignments : \A s \in assignments[c] :
            StripFleet(s) \in Range(camper_prefs(c))

\* An accepted solution although a seatrade with room is requested by none
\* of the campers.
C4_Witness ==
    /\ Accepted
    /\ \E i \in DOMAIN seatrades_prefs :
          /\ seatrades_prefs[i].campers_max >= 1
          /\ \A c \in DOMAIN cabin_camper_prefs :
                seatrades_prefs[i].seatrade \notin Range(camper_prefs(c))

\* The seatrades of the two instances of the row put to constraint 5.
Top2Seatrades == {StripFleet(s) : s \in top2.row}

\* C5: for a camper with 4 distinct preferences and a pair of block
\* assignments satisfying invariants 1, 2 and 4, the rank-sum bound accepts
\* the pair exactly when one of the two seatrades is the 1st or 2nd
\* preference; the only pair it rejects is {3rd, 4th}.
C5_TopTwo ==
    top2.verdict \in {"accepted", "rejected"} =>
        /\ top2.verdict = "accepted" <=>
              Top2Seatrades \cap {top2.preferences[1], top2.preferences[2]} # {}
        /\ top2.verdict = "rejected" <=>
              Top2Seatrades = {top2.preferences[3], top2.preferences[4]}

\* The pair {3rd, 4th} has been put to the constraint and rejected.
C5_Witness ==
    /\ top2.verdict = "rejected"
    /\ Top2Seatrades = {top2.preferences[3], top2.preferences[4]}

\* C6: in an accepted solution all campers of a cabin are, within each
\* block, assigned to instances of one and the same fleet.
C6_CabinTogether ==
    Accepted =>
        \A cabin \in cabins : \A b \in DOMAIN FleetBlocks :
            Cardinality(CabinFleets(cabin, b)) = 1

\* An accepted solution with a cabin of several campers beside another
\* cabin.
C6_Witness ==
    /\ Accepted
    /\ Cardinality(cabins) >= 2
    /\ \E cabin \in cabins : Cardinality(cabin_campers(cabin)) >= 2

\* C7: in an accepted solution each of the four fleets gets the campers of
\* at least floor(#cabins / 2) cabins, so the cabin counts of the two fleets
\* of a block differ by at most 1.
C7_HalfOfCabins ==
    Accepted =>
        /\ \A f \in FleetSet :
              Cardinality(CabinsInFleet(cabins, f)) >= Cardinality(cabins) \div 2
        /\ \A b \in DOMAIN FleetBlocks : \A f, g \in FleetBlocks[b] :
              Cardinality(CabinsInFleet(cabins, f))
                  - Cardinality(CabinsInFleet(cabins, g)) <= 1

\* An accepted solution for an odd number of cabins, where a fleet holds
\* one cabin more than the other fleet of its block.
C7_Witness ==
    /\ Accepted
    /\ Cardinality(cabins) = 3
    /\ \E f \in FleetSet : Cardinality(CabinsInFleet(cabins, f)) = 2

\* C8: in an accepted solution each of the four fleets gets, for every
\* gender, at least floor(half) of the cabins of that gender, a cabin's
\* gender being the most frequent gender of its campers.
C8_HalfOfGenderCabins ==
    Accepted =>
        \A gender \in Range(GenderOrder) : \A f \in FleetSet :
            Cardinality(CabinsInFleet(gender_cabins(gender), f))
                >= Cardinality(gender_cabins(gender)) \div 2

\* An accepted solution where a gender has two cabins and another gender
\* has one.
C8_Witness ==
    /\ Accepted
    /\ \E gender \in Range(GenderOrder) :
          Cardinality(gender_cabins(gender)) = 2
    /\ \E gender \in Range(GenderOrder) :
          Cardinality(gender_cabins(gender)) = 1

\* C9: when max_seatrades_per_fleet is configured with an integer >= 0,
\* 0 included, the number of distinct seatrades with at least one camper in
\* a fleet of an accepted solution is at most that integer.
C9_SeatradesPerFleet ==
    (Accepted /\ max_seatrades_per_fleet # None) =>
        \A f \in FleetSet :
            Cardinality(SeatradesInFleet(f)) <= max_seatrades_per_fleet[1]

\* C10: in an accepted solution no seatrade instance holds more than 4
\* campers of one cabin, whatever the size of the cabin.
C10_FourPerCabin ==
    Accepted =>
        \A cabin \in cabins : \A i \in DOMAIN seatrades_full :
            Cardinality(Attending(cabin_campers(cabin), seatrades_full[i])) <= 4

\* An accepted solution where a cabin of 5 has 4 of its campers in one
\* instance with room for all 5.
C10_Witness ==
    /\ Accepted
    /\ \E cabin \in cabins : \E i \in DOMAIN seatrades_full :
          /\ Cardinality(cabin_campers(cabin)) = 5
          /\ SeatradeRow(StripFleet(seatrades_full[i])).campers_max >= 5
          /\ Cardinality(Attending(cabin_campers(cabin), seatrades_full[i])) = 4

\* C11: status is 0 from construction until assign() returns, afterwards 1
\* for a solved outcome and -1 for every failed one (infeasible, unbounded,
\* not solved, undefined); no other value is ever stored.
C11_StatusValues == status \in {0, 1, -1}

\* The rules a pair of input tables can break.
DuplicateCampers ==
    \E i, j \in DOMAIN cabin_camper_prefs :
        i # j /\ cabin_camper_prefs[i].camper = cabin_camper_prefs[j].camper

DuplicateSeatrades ==
    \E i, j \in DOMAIN seatrades_prefs :
        i # j /\ seatrades_prefs[i].seatrade = seatrades_prefs[j].seatrade

UnknownPreference ==
    \E c \in DOMAIN cabin_camper_prefs : \E k \in DOMAIN camper_prefs(c) :
        camper_prefs(c)[k] \notin {seatrades_prefs[i].seatrade : i \in DOMAIN seatrades_prefs}

MinAboveMax ==
    \E i \in DOMAIN seatrades_prefs :
        seatrades_prefs[i].campers_min > seatrades_prefs[i].campers_max

InvalidInput ==
    DuplicateCampers \/ DuplicateSeatrades \/ UnknownPreference \/ MinAboveMax

\* C14: input that breaks a validation rule (duplicate identifiers, a
\* preference for a seatrade missing from the seatrade table, campers_min
\* above campers_max) is refused before a model is built: the solver is
\* never run on it, so no solve status is ever stored for it.
C14_RefusedBeforeSolve == InvalidInput => status = 0

(***************************************************************************)
(* wrangle_assignments_to_longform(assignments), as display_assignments    *)
(* calls it on the values of an accepted solution.                         *)
(***************************************************************************)
\* "a in b" on two strings.
IsSubstring(a, b) ==
    \E k \in 0..(Len(b) - Len(a)) : SubSeq(b, k + 1, k + Len(a)) = a

\* str.split(sep): the pieces of s between the occurrences of sep.
RECURSIVE Split(_, _)
Split(s, sep) ==
    IF \A i \in DOMAIN s : s[i] # sep THEN <<s>>
    ELSE <<SubSeq(s, 1, (CHOOSE i \in DOMAIN s :
                            s[i] = sep /\ \A j \in 1..(i - 1) : s[j] # sep) - 1)>>
         \o Split(SubSeq(s, (CHOOSE i \in DOMAIN s :
                            s[i] = sep /\ \A j \in 1..(i - 1) : s[j] # sep) + 1,
                         Len(s)), sep)

\* melt().reset_index().rename(): a row for every camper under every
\* column of the wide table, column by column.
Melt(x) ==
    [k \in 1..(Len(x) * Len(seatrades_full)) |->
        [camper |-> campers[((k - 1) % Len(x)) + 1],
         seatrade |-> seatrades_full[((k - 1) \div Len(x)) + 1],
         assignment |-> Val(x[((k - 1) % Len(x)) + 1],
                            seatrades_full[((k - 1) \div Len(x)) + 1])]]

\* self.camper_prefs[row.camper]
row_camper_prefs(camper) ==
    camper_prefs(CHOOSE i \in DOMAIN cabin_camper_prefs :
                    cabin_camper_prefs[i].camper = camper)

\* Variant of lookup_preference with the 2-character prefix of the earlier
\* instance ids.
lookup_preference_prefix2(row) ==
    IF row.assignment # 0
    THEN IF SubSeq(row.seatrade, 3, Len(row.seatrade))
                \in Range(row_camper_prefs(row.camper))
         THEN ListIndex(row_camper_prefs(row.camper),
                        SubSeq(row.seatrade, 3, Len(row.seatrade))) + 1
         ELSE 999
    ELSE 0

lookup_preference(row) ==
    IF row.assignment # 0
    THEN IF StripFleet(row.seatrade) \in Range(row_camper_prefs(row.camper))
         THEN ListIndex(row_camper_prefs(row.camper), StripFleet(row.seatrade)) + 1
         ELSE 999
    ELSE 0

\* The cabin of the first row of the camper table whose camper name
\* contains row.camper, None without such a row.
lookup_cabin(row) ==
    IF \E i \in DOMAIN cabin_camper_prefs :
          IsSubstring(row.camper, cabin_camper_prefs[i].camper)
    THEN Some(cabin_camper_prefs[
             CHOOSE i \in DOMAIN cabin_camper_prefs :
                /\ IsSubstring(row.camper, cabin_camper_prefs[i].camper)
                /\ \A j \in 1..(i - 1) :
                      ~IsSubstring(row.camper, cabin_camper_prefs[j].camper)].cabin)
    ELSE None

\* Variant of the melt that keeps the rows of assigned instances only.
LongformRowsAssigned(x) ==
    SelectSeq([k \in DOMAIN Melt(x) |->
                  [camper |-> Melt(x)[k].camper,
                   assignment |-> Melt(x)[k].assignment,
                   preference |-> lookup_preference(Melt(x)[k]),
                   cabin |-> lookup_cabin(Melt(x)[k]),
                   block |-> Split(Melt(x)[k].seatrade, "_")[1],
                   seatrade |-> Split(Melt(x)[k].seatrade, "_")[2]]],
              LAMBDA row : row.assignment # 0)

\* The rows with their preference, cabin, block and seatrade columns.
LongformRows(x) ==
    [k \in DOMAIN Melt(x) |->
        [camper |-> Melt(x)[k].camper,
         assignment |-> Melt(x)[k].assignment,
         preference |-> lookup_preference(Melt(x)[k]),
         cabin |-> lookup_cabin(Melt(x)[k]),
         block |-> Split(Melt(x)[k].seatrade, "_")[1],
         seatrade |-> Split(Melt(x)[k].seatrade, "_")[2]]]

\* The two-column assignment of the split raises unless every id has
\* exactly two pieces.
wrangle_assignments_to_longform(x) ==
    IF \A k \in DOMAIN Melt(x) : Len(Split(Melt(x)[k].seatrade, "_")) = 2
    THEN [called |-> TRUE, raised |-> FALSE, rows |-> LongformRows(x)]
    ELSE [called |-> TRUE, raised |-> TRUE, rows |-> <<>>]

Wrangle ==
    /\ status = 1
    /\ ~longform.called
    /\ longform' = wrangle_assignments_to_longform(assignments)
    /\ UNCHANGED <<engine, top2, roundtrip, app>>

\* Camper tables of up to MaxRows rows, with names none of which contains
\* another and with names each of which contains the names below it.
NamePatterns == {"plain", "nested"}

NameOf(pattern, i) ==
    IF pattern = "plain" THEN CamperNames[i]
    ELSE <<"c">> \o [j \in 1..(MaxRows - i + 1) |-> "1"]

LongformCamperTables ==
    {[i \in DOMAIN t |-> [t[i] EXCEPT !.camper = NameOf(np, i)]] :
        t \in {u \in CamperTables : Len(u) <= MaxRows}, np \in NamePatterns}

InitLongform ==
    /\ cabin_camper_prefs \in LongformCamperTables
    /\ seatrades_prefs \in SeatradeTables
    /\ max_seatrades_per_fleet = None
    /\ status = 0
    /\ assignments = NoValues
    /\ fleet_assignment = NoValues
    /\ problem = NoProblem
    /\ roundtrip = NoRoundTrip
    /\ top2 = NoTop2
    /\ longform = NoLongform
    /\ AppIdle

NextLongform == Assign \/ Wrangle

SpecLongform == InitLongform /\ [][NextLongform]_vars

(***************************************************************************)
(* Properties of the long-form table.                                      *)
(***************************************************************************)
Wrangled == longform.called /\ ~longform.raised

\* The row of the camper table behind the k-th long-form record.
RecordCamper(k) == ((k - 1) % Len(cabin_camper_prefs)) + 1

\* The records of a camper (by table row) in a Block ("1" or "2").
BlockRecords(c, b) ==
    {k \in DOMAIN longform.rows :
        RecordCamper(k) = c /\ longform.rows[k].block[1] = b}

\* C15 as stated: the long-form table has exactly one record per (camper,
\* Block) pair, 2 records per camper.
C15_OneRecordPerBlock ==
    Wrangled =>
        /\ Len(longform.rows) = 2 * Len(cabin_camper_prefs)
        /\ \A c \in DOMAIN cabin_camper_prefs : \A b \in {"1", "2"} :
              Cardinality(BlockRecords(c, b)) = 1

\* C15: the long-form table has exactly one record per (camper, seatrade
\* instance) pair, 4 * #seatrades records per camper, each with the columns
\* camper, cabin, block (the fleet label of the instance), seatrade,
\* assignment and preference; for an accepted solution exactly one record
\* per camper and Block has its assignment set.
C15_OneRecordPerInstance ==
    Wrangled =>
        /\ Len(longform.rows) = Len(cabin_camper_prefs) * Len(seatrades_full)
        /\ \A c \in DOMAIN cabin_camper_prefs : \A i \in DOMAIN seatrades_full :
              Cardinality({k \in DOMAIN longform.rows :
                  /\ longform.rows[k].camper = cabin_camper_prefs[c].camper
                  /\ longform.rows[k].block \o <<"_">> \o longform.rows[k].seatrade
                        = seatrades_full[i]}) = 1
        /\ \A k \in DOMAIN longform.rows :
              DOMAIN longform.rows[k] =
                  {"camper", "cabin", "block", "seatrade", "assignment", "preference"}
        /\ \A c \in DOMAIN cabin_camper_prefs : \A b \in {"1", "2"} :
              Cardinality({k \in BlockRecords(c, b) :
                              longform.rows[k].assignment # 0}) = 1

\* The long-form table of an accepted solution for several campers.
C15_Witness ==
    /\ Wrangled
    /\ Len(cabin_camper_prefs) >= 2
    /\ Len(longform.rows) > 2 * Len(cabin_camper_prefs)

\* C16: in the long-form table of a solution that satisfies the constraints
\* the preference of an unassigned record is 0 and that of an assigned
\* record is the 1-based position (1..4) of its seatrade in the camper's
\* preference list; 999 never appears.
C16_PreferenceRank ==
    Wrangled =>
        \A k \in DOMAIN longform.rows :
            /\ longform.rows[k].assignment = 0 => longform.rows[k].preference = 0
            /\ longform.rows[k].assignment # 0 =>
                  /\ longform.rows[k].preference \in 1..4
                  /\ camper_prefs(RecordCamper(k))[longform.rows[k].preference]
                        = longform.rows[k].seatrade
            /\ longform.rows[k].preference # 999

\* A long-form table with a camper's 1st and 4th preference assigned, next
\* to unassigned records.
C16_Witness ==
    /\ Wrangled
    /\ \E k, m, n \in DOMAIN longform.rows :
          /\ RecordCamper(k) = RecordCamper(m)
          /\ longform.rows[k].preference = 1
          /\ longform.rows[m].preference = 4
          /\ longform.rows[n].assignment = 0

\* C17: the cabin of every long-form record is the cabin of the record's
\* camper, also when one camper's name is contained in another's.
C17_CabinOfCamper ==
    Wrangled =>
        \A k \in DOMAIN longform.rows :
            longform.rows[k].cabin = Some(cabin_camper_prefs[RecordCamper(k)].cabin)

(***************************************************************************)
(* The assignments tab.  A click on "Assign Seatrades." runs                *)
(* _assign_seatrades in the session's script run (the supervisor), which    *)
(* starts _run_assignment_and_capture_logs in a thread (the worker) and     *)
(* polls it.  A widget event during the script run (the stop button, any    *)
(* rerun) ends the script run at its next Streamlit call and renders the    *)
(* page anew; the worker thread keeps running.                              *)
(***************************************************************************)
\* Seatrades(cabin_camper_preferences, seatrade_preferences)
NewSeatrades == [status |-> 0, values |-> "none"]

\* The statuses problem.solve() returns.
SolverStatuses == {1} \cup SolverFailures({})

\* Variant of is_alive() that reports a thread as ended once assign() has
\* returned in it.
is_alive_in_assign(r) == runs[r].worker = "running"

\* threading.Thread.is_alive() of the worker of run r.
is_alive(r) == runs[r].worker \in {"running", "returned"}

\* The text of the log file, None when the file does not exist.
ReadLog(old) == IF log_file # None THEN log_file[1] ELSE old

\* re.compile("Result - Stopped on time limit").search(text): the solver
\* writes the line, when it does, after the rest of its log.
StoppedOnTimeLimit(text) == Len(text) > 1

\* Variant of the timeout flag that is computed anew in every round.
TimeoutAnew(timeout, overdue, file) ==
    \/ overdue
    \/ file # None /\ StoppedOnTimeLimit(file[1])

\* Lines 121-122 and 140-143: timeout after a round of the polling loop
\* that found the time limit exceeded or not and the log file as given.
Timeout(timeout, overdue, file) ==
    \/ timeout
    \/ overdue
    \/ file # None /\ StoppedOnTimeLimit(file[1])

\* Variant of _clear_optimization_results that keeps the stored object.
ClearSuccessOnly(state) == [state EXCEPT !.optimization_success = None]

\* _clear_optimization_results()
ClearOptimizationResults(state) ==
    [state EXCEPT !.optimization_success = None, !.assigned_seatrades = None]

\* Lines 93-107: a new Seatrades object, the log file removed.
BeginSolve ==
    /\ supervisor.pc = "idle"
    /\ Len(runs) < MaxRuns
    /\ runs' = Append(runs, [seatrades |-> NewSeatrades, worker |-> "unstarted",
                             item |-> None, stopped |-> FALSE,
                             raised |-> FALSE, current |-> TRUE])
    /\ log_file' = None
    /\ supervisor' = [Idle EXCEPT !.pc = "starting", !.run = Len(runs) + 1]
    /\ UNCHANGED <<offstage, session, displayed, status_queue>>

\* Lines 108-115: solver_thread.start()
StartWorker ==
    /\ supervisor.pc = "starting"
    /\ runs' = [runs EXCEPT ![supervisor.run].worker = "running"]
    /\ supervisor' = [supervisor EXCEPT !.pc = "polling"]
    /\ UNCHANGED <<offstage, session, displayed, status_queue, log_file>>

\* Lines 116-161: one round of the polling loop.  The round finds the time
\* limit exceeded or not (and exceeded once it was), shows the progress
\* text, sets old_log_text, relays the log and matches it against the
\* time-limit line, and updates the status label when there is a log.
Poll ==
    /\ supervisor.pc = "polling"
    /\ is_alive(supervisor.run)
    /\ \E overdue \in {b \in BOOLEAN : supervisor.overdue => b} :
        supervisor' = [supervisor EXCEPT
            !.overdue = overdue,
            !.progress = IF supervisor.timeout \/ overdue
                         THEN "stopping" ELSE "optimizing",
            !.log_text = ReadLog(@),
            !.old_log_text = Some(IF log_file # None THEN log_file[1] ELSE <<>>),
            !.timeout = Timeout(supervisor.timeout, overdue, log_file),
            !.label = IF log_file = None THEN @
                      ELSE IF Timeout(supervisor.timeout, overdue, log_file)
                           THEN "stopping" ELSE "optimizing"]
    /\ UNCHANGED <<offstage, session, displayed, status_queue, log_file, runs>>

\* Lines 162-183 and 196: the loop has ended; the last read of the log and
\* its comparison with old_log_text, which raises UnboundLocalError when no
\* round of the loop has assigned old_log_text (the callback ends there and
\* the page shows the exception, with or without the stored result below
\* it); otherwise the status taken from the queue, optimization_success set.
ReadStatus ==
    /\ supervisor.pc = "polling"
    /\ ~is_alive(supervisor.run)
    /\ \/ /\ supervisor.old_log_text = None
          /\ runs' = [runs EXCEPT ![supervisor.run].raised = TRUE]
          /\ supervisor' = Idle
          /\ displayed' \in {None, session.assigned_seatrades}
          /\ UNCHANGED <<session, status_queue>>
       \/ /\ supervisor.old_log_text # None
          /\ supervisor' = [supervisor EXCEPT
                !.pc = "concluding",
                !.log_text = ReadLog(@),
                !.old_log_text = Some(ReadLog(supervisor.log_text)),
                !.success = status_queue # <<>> /\ Head(status_queue).status > 0,
                !.item = IF status_queue # <<>> THEN Some(Head(status_queue)) ELSE None]
          /\ status_queue' =
                IF status_queue # <<>> THEN Tail(status_queue) ELSE status_queue
          /\ session' = [session EXCEPT !.optimization_success =
                Some(status_queue # <<>> /\ Head(status_queue).status > 0)]
          /\ UNCHANGED <<displayed, runs>>
    /\ UNCHANGED <<offstage, log_file>>

\* Lines 184-201 and 36-45: seatrades.status set, the deep copy stored in
\* the session, and the page rendered with display_assignments.
StoreResult ==
    /\ supervisor.pc = "concluding"
    /\ runs' = [runs EXCEPT ![supervisor.run].seatrades.status =
                   IF supervisor.success THEN 1 ELSE -1]
    /\ session' = [session EXCEPT !.assigned_seatrades =
                      Some([run |-> supervisor.run,
                            status |-> IF supervisor.success THEN 1 ELSE -1,
                            values |-> runs[supervisor.run].seatrades.values])]
    /\ displayed' = session'.assigned_seatrades
    /\ supervisor' = Idle
    /\ UNCHANGED <<offstage, status_queue, log_file>>

\* Variant of the stop request that ends the worker thread as well.
StopWorkerToo ==
    /\ supervisor.pc \in {"polling", "concluding"}
    /\ runs' = [runs EXCEPT ![supervisor.run].stopped = TRUE,
                            ![supervisor.run].worker = "dead"]
    /\ displayed' = session.assigned_seatrades
    /\ supervisor' = Idle
    /\ UNCHANGED <<offstage, session, status_queue, log_file>>

\* Lines 95-98 and 36-45: a stop request (or any other widget event) while
\* the script run is between Streamlit calls of the polling loop or of the
\* conclusion.  The script run ends, the page is rendered from the session.
Stop ==
    /\ supervisor.pc \in {"polling", "concluding"}
    /\ runs' = [runs EXCEPT ![supervisor.run].stopped = TRUE]
    /\ displayed' = session.assigned_seatrades
    /\ supervisor' = Idle
    /\ UNCHANGED <<offstage, session, status_queue, log_file>>

\* Lines 208-215: seatrades.assign() returns with a stored status or raises;
\* a solver with a logPath replaces the log file by its own log, which ends
\* with the time-limit line or not.
WorkerSolve(r) ==
    /\ r \in DOMAIN runs
    /\ runs[r].worker = "running"
    /\ \E raised \in BOOLEAN : \E solved \in SolverStatuses :
       \E log \in {None, Some(<<r>>), Some(<<r, r>>)} :
        /\ runs' = [runs EXCEPT
                       ![r].worker = "returned",
                       ![r].seatrades =
                           IF raised THEN @
                           ELSE [status |-> StoredStatus(solved),
                                 values |-> IF solved = 1 THEN "solution"
                                            ELSE "unsolved"],
                       ![r].item =
                           Some(IF raised THEN -1
                                ELSE IF StoredStatus(solved) # 0
                                     THEN StoredStatus(solved) ELSE 0)]
        /\ log_file' = IF log # None THEN log ELSE log_file
    /\ UNCHANGED <<offstage, session, displayed, status_queue, supervisor>>

\* Lines 216-223: the status put on the queue, the thread ends.
WorkerPut(r) ==
    /\ r \in DOMAIN runs
    /\ runs[r].worker = "returned"
    /\ status_queue' = Append(status_queue, [status |-> runs[r].item[1], run |-> r])
    /\ runs' = [runs EXCEPT ![r].worker = "dead"]
    /\ UNCHANGED <<offstage, session, displayed, log_file, supervisor>>

\* The session keys the update callbacks replace.
ConfigKeys ==
    {"optimization_config", "camper_simulation_config", "seatrade_simulation_config"}

\* _update_optimization_config (optimization_config_tab.py, lines 97-102),
\* _update_camper_simulation_config (campers_tab.py, lines 50-69) and
\* _update_seatrade_simulation_config (seatrades_tab.py, lines 107-128),
\* called when a configuration form is submitted.  The submission is a
\* widget event: a script run that is in _assign_seatrades ends at its next
\* Streamlit call and leaves its worker behind.  A simulation configuration
\* whose minimum is not below its maximum is refused with a toast; any other
\* is stored under its key, the optimization results are cleared (and the
\* simulated table under the key is dropped), so that no solve started
\* before has the session's configuration any longer.  The page is then
\* rendered from the session.
UpdateConfig(key) ==
    /\ \E valid \in {b \in BOOLEAN : key = "optimization_config" => b} :
        /\ runs' = [r \in DOMAIN runs |->
                       [runs[r] EXCEPT
                           !.stopped = @ \/ (supervisor.pc # "idle" /\ r = supervisor.run),
                           !.current = @ /\ ~valid]]
        /\ session' = IF valid THEN ClearOptimizationResults(session) ELSE session
    /\ supervisor' = Idle
    /\ displayed' = session'.assigned_seatrades
    /\ UNCHANGED <<offstage, status_queue, log_file>>

InitApp ==
    /\ cabin_camper_prefs = <<>>
    /\ seatrades_prefs = <<>>
    /\ max_seatrades_per_fleet = None
    /\ status = 0
    /\ assignments = NoValues
    /\ fleet_assignment = NoValues
    /\ problem = NoProblem
    /\ roundtrip = NoRoundTrip
    /\ top2 = NoTop2
    /\ longform = NoLongform
    /\ AppIdle

NextApp ==
    \/ BeginSolve
    \/ StartWorker
    \/ Poll
    \/ ReadStatus
    \/ StoreResult
    \/ Stop
    \/ \E r \in 1..MaxRuns : WorkerSolve(r)
    \/ \E r \in 1..MaxRuns : WorkerPut(r)
    \/ \E key \in ConfigKeys : UpdateConfig(key)

SpecApp == InitApp /\ [][NextApp]_vars

\* The solver ends within its time limit and the worker thread is scheduled.
SpecAppLive ==
    /\ SpecApp
    /\ \A r \in 1..MaxRuns :
          /\ WF_vars(WorkerSolve(r))
          /\ WF_vars(WorkerPut(r))

(***************************************************************************)
(* Properties of the supervised solve.                                     *)
(***************************************************************************)
\* The Seatrades objects exposed downstream: the one stored in the session
\* and the one last interpreted and rendered by the assignments tab.
Exposed ==
    {session.assigned_seatrades[i] : i \in DOMAIN session.assigned_seatrades}
        \cup {displayed[i] : i \in DOMAIN displayed}

\* C12: after a supervised solve that finished with failure (status -1) the
\* session holds no assignment table of it and the assignments tab has not
\* interpreted or rendered one.
C12_NothingAfterFailure == \A o \in Exposed : o.status # -1

\* C13: status 1 and optimization_success = True are recorded for a solve
\* only when its own worker reported a positive status; when the worker's
\* assign() raised or its solver reported a non-positive status the solve
\* ends with status -1 and optimization_success = False.
C13_OwnStatus ==
    /\ supervisor.pc = "concluding" =>
          /\ session.optimization_success = Some(supervisor.success)
          /\ supervisor.success => runs[supervisor.run].item[1] > 0
    /\ \A o \in Exposed :
          /\ o.status \in {1, -1}
          /\ o.status = 1 => runs[o.run].item[1] > 0

\* C18: a Seatrades object is stored in the session, and interpreted by the
\* assignments tab, only after its worker thread has ended and its terminal
\* status has been recorded; never while its worker is still running.
C18_OnlyFinishedResults ==
    \A o \in Exposed :
        /\ runs[o.run].worker = "dead"
        /\ o.status \in {1, -1}
        /\ runs[o.run].seatrades.status = o.status
        /\ session.optimization_success # None

\* A result is stored and rendered while the worker of another, abandoned
\* solve is still running.
C18_Witness ==
    /\ session.assigned_seatrades # None
    /\ displayed = session.assigned_seatrades
    /\ \E r \in DOMAIN runs : runs[r].worker = "running"

StoppedRunning(r) ==
    IF r \in DOMAIN runs
    THEN runs[r].stopped /\ runs[r].worker = "running"
    ELSE FALSE

\* The worker of run r has put its status on the queue and ended.
Delivered(r) ==
    IF r \in DOMAIN runs
    THEN runs[r].worker = "dead" /\ runs[r].item # None
    ELSE FALSE

\* C20: a stop request during a solve leaves the worker as it is, and the
\* worker goes on until its solver returns and puts its terminal status on
\* the queue.
C20_StopLeavesWorker ==
    /\ [][\A r \in DOMAIN runs :
            (~runs[r].stopped /\ runs'[r].stopped) =>
                /\ runs'[r].worker = runs[r].worker
                /\ runs'[r].item = runs[r].item
                /\ status_queue' = status_queue]_vars
    /\ \A r \in 1..MaxRuns :
          StoppedRunning(r) ~> Delivered(r)

\* A solve was stopped while its worker was running, and the worker's
\* status is on the queue with nobody left to take it.
C20_Witness ==
    \E r \in DOMAIN runs :
        /\ runs[r].stopped
        /\ runs[r].worker = "dead"
        /\ supervisor.pc = "idle"
        /\ \E i \in DOMAIN status_queue : status_queue[i].run = r

(***************************************************************************)
(* The example scenarios of the specification, solved by assign().         *)
(***************************************************************************)

\* Campers in cabins of the given size, all with the same preference list.
ExampleCampers(n, size, gp, preferences) ==
    [i \in 1..n |->
        [camper |-> CamperNames[i],
         cabin |-> CabinNames[((i - 1) \div size) + 1],
         gender |-> GenderOf(gp, i, ((i - 1) \div size) + 1),
         prefs |-> preferences]]

\* Cabins A = {c1, c2} and B = {c3, c4}, every camper preferring [S1, S2].
FeasibleExampleCampers ==
    {ExampleCampers(4, 2, gp, preferences) :
        gp \in GenderPatterns, preferences \in ExamplePrefLists.S1S2}

\* 3 campers, in one cabin or in three, whose lists hold S1 only.
InfeasibleExampleCampers ==
    {ExampleCampers(3, size, gp, preferences) :
        size \in {1, 3}, gp \in GenderPatterns, preferences \in ExamplePrefLists.S1}

\* S1 and S2 with the given capacity; the other seatrades take no camper.
ExampleSeatrades(mn, mx) ==
    [i \in DOMAIN SeatradeNames |->
        [seatrade |-> SeatradeNames[i],
         campers_min |-> IF i <= 2 THEN mn ELSE 0,
         campers_max |-> IF i <= 2 THEN mx ELSE 0]]

InitExample ==
    /\ cabin_camper_prefs \in FeasibleExampleCampers \cup InfeasibleExampleCampers
    /\ seatrades_prefs \in {ExampleSeatrades(1, 2), ExampleSeatrades(0, 2)}
    /\ max_seatrades_per_fleet = None
    /\ status = 0
    /\ assignments = NoValues
    /\ fleet_assignment = NoValues
    /\ problem = NoProblem
    /\ roundtrip = NoRoundTrip
    /\ top2 = NoTop2
    /\ longform = NoLongform
    /\ AppIdle

NextExample == Assign

SpecExample == InitExample /\ [][NextExample]_vars

\* The example: 2 cabins of 2 campers, S1 and S2 of capacity [1, 2].
FeasibleExample ==
    /\ cabin_camper_prefs \in FeasibleExampleCampers
    /\ seatrades_prefs = ExampleSeatrades(1, 2)

\* C21: for the example input the problem assign() builds has a point, and
\* every solution it accepts gives each camper exactly one seatrade in each
\* block, never the same seatrade in both blocks, and gives every instance
\* of S1 and S2 between 1 and 2 campers.
C21_ExampleFeasible ==
    FeasibleExample =>
        /\ status = 0 => SolverPoints(CamperPoints, None) # {}
        /\ Accepted =>
            /\ \A c \in DOMAIN cabin_camper_prefs :
                /\ \A b \in DOMAIN FleetBlocks :
                      Cardinality({StripFleet(s) : s \in assignments[c] \cap BlockIds(b)}) = 1
                /\ {StripFleet(s) : s \in assignments[c] \cap BlockIds(1)}
                      \cap {StripFleet(s) : s \in assignments[c] \cap BlockIds(2)} = {}
            /\ \A f \in FleetSet : \A i \in 1..2 :
                  Cardinality(Attending(DOMAIN assignments,
                      InstanceId(f, SeatradeNames[i]))) \in 1..2

\* The example input solved with status 1.
C21_Witness ==
    /\ FeasibleExample
    /\ Accepted
    /\ DOMAIN assignments = 1..4

\* The infeasibility scenario: 3 campers whose lists hold only S1, and S1
\* takes at most 2 campers.
InfeasibleExample ==
    /\ cabin_camper_prefs \in InfeasibleExampleCampers
    /\ seatrades_prefs = ExampleSeatrades(0, 2)

\* C22: for 3 campers whose preference lists contain only S1 (campers_max
\* 2) the problem has no point, so the solve never ends with status 1, and
\* it ends with status -1 once the solver has reported the problem
\* infeasible (-1) or not solved (0).
C22_ExampleInfeasible ==
    InfeasibleExample =>
        /\ status = 0 => CamperPoints = {}
        /\ status # 1
        /\ problem.status \in {-1, 0} => status \in {0, -1}

\* The scenario after the solver reported the problem infeasible.
C22_Witness ==
    /\ InfeasibleExample
    /\ problem.status = -1
    /\ status = -1

(***************************************************************************)
(* assign() with its weights, and with everything the returned problem     *)
(* holds: the objective, the values of the indicator variables, the value  *)
(* of the objective at the returned point and the least value it takes on  *)
(* the problem.  The solver stops within a gap of the optimum (gapRel) or  *)
(* at its time limit, so the returned point need not be optimal.  Assign   *)
(* is this action for an objective and indicators nobody reads.            *)
(***************************************************************************)

\* cabins_weight and sparsity_weight: Optional[float]
OptionalWeights == {None, Some(0), Some(2)}

\* preference_weight : float = 5.0
Weights ==
    [preference_weight : {5},
     cabins_weight : OptionalWeights,
     sparsity_weight : OptionalWeights]

AssignWeighted ==
    /\ status = 0
    /\ \E found \in {CamperPoints} : \E cap \in FleetCaps : \E weights \in Weights :
        \E scored \in {Scored(FullPoints(found, cap), Objective(weights))} :
            /\ max_seatrades_per_fleet' = cap
            /\ \/ \E best \in {IF scored = {} THEN 0 ELSE Best(scored)} :
                  \E sc \in scored :
                    /\ status' = 1
                    /\ assignments' = sc.point.x
                    /\ fleet_assignment' = sc.point.fa
                    /\ problem' =
                        [status |-> 1, weights |-> weights,
                         objective |-> Objective(weights),
                         cabin_assignments |-> sc.point.cabin_assignments,
                         seatrade_assignment |-> sc.point.seatrade_assignment,
                         value |-> sc.value, best |-> best]
               \/ \E solved \in SolverFailures(scored) :
                    /\ status' = StoredStatus(solved)
                    /\ assignments' = NoValues
                    /\ fleet_assignment' = NoValues
                    /\ problem' = [NoProblem EXCEPT !.status = solved,
                                      !.weights = weights,
                                      !.objective = Objective(weights)]
    /\ UNCHANGED <<cabin_camper_prefs, seatrades_prefs, top2, longform, roundtrip, app>>

\* The tables of at most MaxWeighed campers: one cabin of campers who all
\* prefer the first four seatrades.
WeighedCamperTables ==
    {t \in CamperTables :
        /\ Len(t) <= MaxWeighed
        /\ \A i \in DOMAIN t :
              t[i].cabin = CabinNames[1] /\ t[i].prefs = PrefsOf("same", 1)}

\* The seatrade table that goes with a table of n campers: the first 4 - n
\* seatrades take up to MaxCapacity campers, the others none (the fewer
\* campers, the more seatrades are open to them).
WeighedSeatrades(n) ==
    [i \in DOMAIN SeatradeNames |->
        [seatrade |-> SeatradeNames[i],
         campers_min |-> 0,
         campers_max |-> IF i <= 4 - n THEN MaxCapacity ELSE 0]]

InitWeighted ==
    /\ cabin_camper_prefs \in WeighedCamperTables
    /\ seatrades_prefs = WeighedSeatrades(Len(cabin_camper_prefs))
    /\ max_seatrades_per_fleet = None
    /\ status = 0
    /\ assignments = NoValues
    /\ fleet_assignment = NoValues
    /\ problem = NoProblem
    /\ roundtrip = NoRoundTrip
    /\ top2 = NoTop2
    /\ longform = NoLongform
    /\ AppIdle

NextWeighted == AssignWeighted

SpecWeighted == InitWeighted /\ [][NextWeighted]_vars

\* A solve with weights that ended with status 1.
Weighed == status = 1 /\ problem.weights # <<>>

\* The sum, over the campers, the fleets and the seatrades a camper prefers,
\* of the assignment times the seatrade's 0-based rank in the camper's list.
PreferencePenalty ==
    SumSeq([c \in DOMAIN assignments |->
        SumSeq([f \in DOMAIN fleets |->
            SumSeq([k \in DOMAIN seatrades |->
                IF seatrades[k] \in Range(camper_prefs(c))
                THEN Val(assignments[c], FleetIds[f][k])
                        * ListIndex(camper_prefs(c), seatrades[k])
                ELSE 0])])])

\* A weight that is set and non-zero.
SetNonZero(w) == w # None /\ w # Some(0)

\* C23: the minimised objective is preference_weight times the preference
\* penalty, plus cabins_weight times the sum of the cabin indicators only
\* when cabins_weight is set and non-zero, plus sparsity_weight times the
\* sum of the seatrade indicators only when sparsity_weight is set and
\* non-zero; an absent or zero weight contributes no term to the objective.
C23_Objective ==
    Weighed =>
        /\ problem.value =
              problem.weights.preference_weight * PreferencePenalty
              + (IF SetNonZero(problem.weights.cabins_weight)
                 THEN problem.weights.cabins_weight[1]
                        * Cardinality(problem.cabin_assignments)
                 ELSE 0)
              + (IF SetNonZero(problem.weights.sparsity_weight)
                 THEN problem.weights.sparsity_weight[1]
                        * Cardinality(problem.seatrade_assignment)
                 ELSE 0)
        /\ problem.objective.cabin_assignments # {}
              <=> SetNonZero(problem.weights.cabins_weight)
        /\ problem.objective.seatrade_assignment # {}
              <=> SetNonZero(problem.weights.sparsity_weight)

\* A solve with a cabins weight of zero and a sparsity weight that counts,
\* ended at a point with a preference penalty and an unforced indicator.
C23_Witness ==
    /\ Weighed
    /\ problem.weights.cabins_weight = Some(0)
    /\ SetNonZero(problem.weights.sparsity_weight)
    /\ PreferencePenalty > 1
    /\ problem.cabin_assignments # LeastCa(assignments)
    /\ problem.value > problem.best

\* C25: in every optimal solution of a problem whose cabins_weight is
\* positive, a cabin indicator is 1 exactly for the instances a camper of
\* the cabin is assigned to; likewise, with a positive sparsity_weight, a
\* seatrade indicator is 1 exactly for the instances with a camper.
C25_TightIndicators ==
    Weighed /\ problem.value = problem.best =>
        /\ (problem.weights.cabins_weight # None
              /\ problem.weights.cabins_weight[1] > 0)
              => \A cabin \in cabins : \A i \in DOMAIN seatrades_full :
                    <<cabin, seatrades_full[i]>> \in problem.cabin_assignments
                        <=> Attending(cabin_campers(cabin), seatrades_full[i]) # {}
        /\ (problem.weights.sparsity_weight # None
              /\ problem.weights.sparsity_weight[1] > 0)
              => \A f \in FleetSet : \A i \in DOMAIN seatrades :
                    <<f, seatrades[i]>> \in problem.seatrade_assignment
                        <=> Attending(DOMAIN assignments,
                                      InstanceId(f, seatrades[i])) # {}

\* An optimal solution of a problem with both weights positive, for a cabin
\* of two campers: they stay together and two indicators of each kind are 1.
C25_Witness ==
    /\ Weighed
    /\ problem.value = problem.best
    /\ problem.weights.cabins_weight = Some(2)
    /\ problem.weights.sparsity_weight = Some(2)
    /\ Len(assignments) = 2
    /\ assignments[1] = assignments[2]
    /\ Cardinality(problem.cabin_assignments) = 2
    /\ Cardinality(problem.seatrade_assignment) = 2

\* C28: in every accepted solution the fleet indicator of a cabin and a
\* fleet is 1 exactly when a camper of the cabin is assigned to an instance
\* of the fleet: no indicator is 1 for a fleet the cabin does not attend,
\* whatever the balancing constraints would gain from it.
C28_FleetIndicatorExact ==
    Accepted =>
        \A cabin \in cabins : \A f \in FleetSet :
            f \in fleet_assignment[cabin]
                <=> \E c \in cabin_campers(cabin) :
                        assignments[c] \cap FleetIdSet(f) # {}

\* An accepted solution for three cabins, where the balancing constraints
\* need a cabin in each fleet of a block.
C28_Witness ==
    /\ Accepted
    /\ Cardinality(cabins) = MaxCabins
    /\ \A f \in FleetSet : \E cabin \in cabins : f \in fleet_assignment[cabin]

(***************************************************************************)
(* Instance ids on their own: the id of a fleet and a seatrade name is     *)
(* built as in __init__, stripped of its prefix as in the constraints and  *)
(* in lookup_preference, and split as at the end of                        *)
(* wrangle_assignments_to_longform.                                        *)
(***************************************************************************)

\* Seatrade names of up to MaxNameLen characters, "_" among them.
NameChars == {"A", "B", "_"}

SeatradeLabels == UNION {[1..n -> NameChars] : n \in 1..MaxNameLen}

\* df[["block", "seatrade"]] = df["seatrade"].str.split("_", expand=True):
\* the pieces of the id fill the two columns; any other number of pieces
\* does not fit the two column names and the assignment raises.
SplitColumns(id) ==
    IF Len(Split(id, "_")) = 2
    THEN [columns |-> Split(id, "_"), raised |-> FALSE]
    ELSE [columns |-> <<>>, raised |-> TRUE]

InitRoundTrip ==
    /\ cabin_camper_prefs = <<>>
    /\ seatrades_prefs = <<>>
    /\ max_seatrades_per_fleet = None
    /\ status = 0
    /\ assignments = NoValues
    /\ fleet_assignment = NoValues
    /\ problem = NoProblem
    /\ top2 = NoTop2
    /\ longform = NoLongform
    /\ AppIdle
    /\ \E fleet \in FleetSet : \E seatrade \in SeatradeLabels :
        roundtrip = [NoRoundTrip EXCEPT !.fleet = fleet, !.seatrade = seatrade]

RoundTrip ==
    /\ ~roundtrip.done
    /\ roundtrip' =
        [fleet |-> roundtrip.fleet,
         seatrade |-> roundtrip.seatrade,
         id |-> InstanceId(roundtrip.fleet, roundtrip.seatrade),
         stripped |-> StripFleet(InstanceId(roundtrip.fleet, roundtrip.seatrade)),
         columns |-> SplitColumns(InstanceId(roundtrip.fleet, roundtrip.seatrade)).columns,
         raised |-> SplitColumns(InstanceId(roundtrip.fleet, roundtrip.seatrade)).raised,
         done |-> TRUE]
    /\ UNCHANGED <<engine, top2, longform, app>>

NextRoundTrip == RoundTrip

SpecRoundTrip == InitRoundTrip /\ [][NextRoundTrip]_vars

\* C29: for every fleet and every seatrade name, names containing "_"
\* included, the id fleet + "_" + name is mapped back to the name by the
\* prefix removal, and the long-form split takes it apart into exactly the
\* fleet label and the name.
C29_IdRoundTrip ==
    roundtrip.done =>
        /\ roundtrip.stripped = roundtrip.seatrade
        /\ ~roundtrip.raised
        /\ roundtrip.columns = <<roundtrip.fleet, roundtrip.seatrade>>

\* The phase the supervisor reports: stopping once the progress text or the
\* status label says so.
ReportedPhase ==
    IF supervisor.progress = "stopping" \/ supervisor.label = "stopping"
    THEN "stopping"
    ELSE IF supervisor.progress = "optimizing" \/ supervisor.label = "optimizing"
         THEN "optimizing" ELSE "setup"

\* C24: during a supervised solve the reported phase is stopping once a
\* round of the polling loop has found the time limit exceeded or the
\* time-limit line in the log, and only then; the progress text and the
\* status label never go back from stopping to optimizing; setting the
\* timeout flag changes nothing about the worker or the queue, and the
\* supervisor leaves the polling loop only when the worker thread has ended.
C24_StoppingPhase ==
    /\ [](supervisor.pc = "polling" /\ supervisor.old_log_text # None =>
            /\ (supervisor.overdue \/ StoppedOnTimeLimit(supervisor.log_text))
                  => ReportedPhase = "stopping"
            /\ ReportedPhase = "stopping" => supervisor.timeout)
    /\ [][(supervisor.pc = "polling" /\ supervisor'.pc = "polling") =>
            /\ supervisor.progress = "stopping" => supervisor'.progress = "stopping"
            /\ supervisor.label = "stopping" => supervisor'.label = "stopping"
            /\ supervisor.timeout => supervisor'.timeout]_vars
    /\ [][(~supervisor.timeout /\ supervisor'.timeout) =>
            runs' = runs /\ status_queue' = status_queue]_vars
    /\ [][(supervisor.pc = "polling" /\ supervisor'.pc = "concluding") =>
            ~is_alive(supervisor.run)]_vars

\* The supervisor is polling a worker that is still in assign(), and both
\* the progress text and the status label say stopping.
C24_Witness ==
    /\ supervisor.pc = "polling"
    /\ supervisor.progress = "stopping"
    /\ supervisor.label = "stopping"
    /\ runs[supervisor.run].worker = "running"

\* C26: the status a supervisor takes from status_queue was put there by
\* the worker of the supervisor's own solve, whatever earlier solves were
\* abandoned and whenever their workers put their statuses.
C26_OwnItem ==
    supervisor.pc = "concluding" =>
        /\ supervisor.item # None
        /\ \A i \in DOMAIN supervisor.item : supervisor.item[i].run = supervisor.run

\* C27: in every interleaving _assign_seatrades runs to completion without
\* raising, also when the worker thread has ended before the first test of
\* is_alive() and the body of the polling loop never runs.
C27_RunsToCompletion ==
    \A r \in DOMAIN runs : ~runs[r].raised

\* C30: every result the session holds or the assignments tab renders is
\* the result of a solve that was started, and completed, after the last
\* accepted configuration update.
C30_NoStaleResult ==
    \A o \in Exposed : runs[o.run].current

\* A result is rendered after an accepted update made an earlier solve's
\* configuration outdated.
C30_Witness ==
    /\ displayed # None
    /\ displayed = session.assigned_seatrades
    /\ \E r \in DOMAIN runs : ~runs[r].current /\ runs[r].worker = "dead"

====
